---------------------------- MODULE Spec2Model ----------------------------
(***************************************************************************)
(* Model of the AppDaemon battery checker (src/i1_battery_checker.py):     *)
(* the daily scan of the Home Assistant state snapshot, the consolidated   *)
(* notification, the per-address cooldown kept in msg_cooldown, and the    *)
(* "ignore" notification action handled by phone_action.                   *)
(*                                                                         *)
(* Python strings that the code inspects (entity ids, readings, action     *)
(* tokens, addresses) are sequences of one-character strings, so that      *)
(* startswith, "in", lower, split, sorted and float are computed on the    *)
(* characters.  Python dicts are functions whose DOMAIN is the set of keys *)
(* present; d.get(k, default) is Get(d, k, default).  Time is counted in   *)
(* ticks, TicksPerDay of them to a day.                                    *)
(***************************************************************************)
EXTENDS Integers, Sequences, FiniteSets, TLC

(***************************************************************************)
(* Bounds of the model.                                                    *)
(***************************************************************************)
\* ticks in one day (the resolution of the clock)
TicksPerDay == 2
\* how many ticks the clock advances past its initial value
Horizon == 5
\* how many entities one snapshot of the scan specification holds
MaxEntities == 2

(***************************************************************************)
(* Strings.                                                                *)
(***************************************************************************)
\* the characters of the identifiers, in code-point order (Python's order on str)
CharOrder ==
    <<".", "0", "1", "2", "3", "4", "5", "6", "7", "8", "9",
      "A", "B", "C", "D", "E", "F", "G", "H", "I", "J", "K", "L", "M",
      "N", "O", "P", "Q", "R", "S", "T", "U", "V", "W", "X", "Y", "Z",
      "_",
      "a", "b", "c", "d", "e", "f", "g", "h", "i", "j", "k", "l", "m",
      "n", "o", "p", "q", "r", "s", "t", "u", "v", "w", "x", "y", "z">>

Ord(c) == CHOOSE i \in 1..Len(CharOrder) : CharOrder[i] = c

UpperChars == {CharOrder[i] : i \in 12..37}

\* str.lower() on one character: "A".."Z" map to "a".."z", the rest is kept
LowerChar(c) == IF c \in UpperChars THEN CharOrder[Ord(c) + 27] ELSE c

\* str.lower()
Lower(s) == [i \in 1..Len(s) |-> LowerChar(s[i])]

\* s.startswith(p)
StartsWith(s, p) == Len(p) <= Len(s) /\ SubSeq(s, 1, Len(p)) = p

\* t in s, for strings
Contains(s, t) ==
    \E i \in 1..(Len(s) - Len(t) + 1) : SubSeq(s, i, i + Len(t) - 1) = t

\* a < b in Python's order on str
StrLess(a, b) ==
    \E i \in 1..(Len(b)) :
        /\ i <= Len(a) + 1
        /\ \A j \in 1..(i - 1) : a[j] = b[j]
        /\ (i = Len(a) + 1 \/ Ord(a[i]) < Ord(b[i]))

\* sorted(S) for a set of strings
RECURSIVE sorted(_)
sorted(S) ==
    IF S = {} THEN <<>>
    ELSE LET m == CHOOSE x \in S : \A y \in S \ {x} : StrLess(x, y)
         IN  <<m>> \o sorted(S \ {m})

\* s.split(sep) for a one-character separator: "" splits into [""]
RECURSIVE split(_, _)
split(s, sep) ==
    IF \E i \in 1..Len(s) : s[i] = sep
    THEN LET i == CHOOSE i \in 1..Len(s) :
                      s[i] = sep /\ \A j \in 1..(i - 1) : s[j] # sep
         IN  <<SubSeq(s, 1, i - 1)>> \o split(SubSeq(s, i + 1, Len(s)), sep)
    ELSE <<s>>

\* d.get(k, default) on a dict
Get(d, k, default) == IF k \in DOMAIN d THEN d[k] ELSE default

\* d[k] = v on a dict
Put(d, k, v) == [x \in (DOMAIN d) \cup {k} |-> IF x = k THEN v ELSE d[x]]

\* the dict {}
EmptyDict == <<>>

(***************************************************************************)
(* float(state): an optional sign, digits, an optional fraction.  A value  *)
(* is mant / 10^scale with sign neg.  The readings of the model are of     *)
(* this form or are no number at all (no exponent, inf, nan or blanks).    *)
(***************************************************************************)
Digits == <<"0", "1", "2", "3", "4", "5", "6", "7", "8", "9">>

DigitChars == {Digits[i] : i \in 1..10}

DigitVal(c) == (CHOOSE i \in 1..10 : Digits[i] = c) - 1

RECURSIVE Pow10(_)
Pow10(n) == IF n = 0 THEN 1 ELSE 10 * Pow10(n - 1)

RECURSIVE DigitsVal(_)
DigitsVal(s) ==
    IF s = <<>> THEN 0
    ELSE 10 * DigitsVal(SubSeq(s, 1, Len(s) - 1)) + DigitVal(s[Len(s)])

Unsigned(s) == IF s # <<>> /\ s[1] \in {"-", "+"} THEN Tail(s) ELSE s

\* whether float(s) returns (otherwise it raises ValueError)
IsFloat(s) ==
    LET u == Unsigned(s)
        dots == {i \in 1..Len(u) : u[i] = "."}
    IN  /\ \A i \in 1..Len(u) : u[i] \in DigitChars \cup {"."}
        /\ Cardinality(dots) <= 1
        /\ \E i \in 1..Len(u) : u[i] \in DigitChars

\* float(s), for IsFloat(s)
ParseFloat(s) ==
    LET u == Unsigned(s)
        dots == {i \in 1..Len(u) : u[i] = "."}
        d == IF dots = {} THEN Len(u) + 1 ELSE CHOOSE i \in dots : TRUE
        ip == SubSeq(u, 1, d - 1)
        fp == SubSeq(u, d + 1, Len(u))
    IN  [neg |-> s[1] = "-",
         mant |-> DigitsVal(ip \o fp),
         scale |-> Len(fp)]

\* battery_level <= threshold, for an int threshold
FloatLeq(f, threshold) ==
    (IF f.neg THEN 0 - f.mant ELSE f.mant) <= threshold * Pow10(f.scale)

RECURSIVE NatStr(_)
NatStr(n) == IF n < 10 THEN <<Digits[n + 1]>> ELSE NatStr(n \div 10) \o <<Digits[(n % 10) + 1]>>

RECURSIVE FracStr(_, _)
FracStr(m, scale) ==
    IF scale = 0 \/ m = 0 THEN <<>>
    ELSE <<Digits[(m \div Pow10(scale - 1)) + 1]>> \o FracStr(m % Pow10(scale - 1), scale - 1)

\* f"{battery_level}" of a float: its repr, with at least one fraction digit
FloatRepr(f) ==
    LET ip == f.mant \div Pow10(f.scale)
        fr == FracStr(f.mant % Pow10(f.scale), f.scale)
    IN  (IF f.neg THEN <<"-">> ELSE <<>>) \o NatStr(ip) \o <<".">>
            \o (IF fr = <<>> THEN <<"0">> ELSE fr)

(***************************************************************************)
(* State.                                                                  *)
(***************************************************************************)
VARIABLES
    \* configuration, set by initialize() and never changed afterwards
    persons,                     \* self.persons: the list of person dicts
    name,                        \* self.name: the name of this app instance
    timezone,                    \* self.timezone: [utcoffset, tzinfo], in ticks
    exclude_list,                \* self.exclude_list
    low_battery_threshold,       \* self.low_battery_threshold
    critical_battery_threshold,  \* self.critical_battery_threshold
    \* the process-wide cooldown dict
    msg_cooldown,                \* self.msg_cooldown: address -> timestamp
    \* the scan in progress: its position and its local variables
    pc,                          \* "idle", "scanned", "notify", "send", "record", "done"
    states,                      \* the snapshot returned by get_state()
    critical_devices,            \* the list of critical findings
    low_devices,                 \* the list of low findings
    message,                     \* full_message, as its list of lines
    idx,                         \* position of the for loop over self.persons
    \* the environment
    now,                         \* time.time(), in ticks
    \* history variables (not read by the program)
    visited,                     \* what the current dispatch did with each person
    delivered,                   \* address -> time of its last successful delivery
    mid_ack                      \* ignore written while the current person is
                                 \* between its cooldown check and its record

config_vars ==
    <<persons, name, timezone, exclude_list, low_battery_threshold,
      critical_battery_threshold>>

scan_vars == <<states, critical_devices, low_devices, message>>

vars ==
    <<persons, name, timezone, exclude_list, low_battery_threshold,
      critical_battery_threshold, msg_cooldown, pc, states, critical_devices,
      low_devices, message, idx, now, visited, delivered, mid_ack>>

(***************************************************************************)
(* The literals of the source.                                             *)
(***************************************************************************)
BinarySensorPrefix ==
    <<"b", "i", "n", "a", "r", "y", "_", "s", "e", "n", "s", "o", "r", ".">>

\* battery_terms of _is_battery_binary_sensor
battery_terms ==
    << <<"b", "a", "t", "t", "e", "r", "y">>,
       <<"b", "a", "t", "t">>,
       <<"i", "s", "l", "o", "w">>,
       <<"l", "o", "w", "_", "b", "a", "t", "t", "e", "r", "y">> >>

\* skip_terms of _check_battery_sensor
skip_terms ==
    << <<"c", "h", "a", "r", "g", "i", "n", "g", "_", "s", "t", "a", "t", "u", "s">>,
       <<"r", "e", "c", "h", "a", "r", "g", "e">>,
       <<"p", "o", "w", "e", "r">> >>

IsLow == <<"i", "s", "l", "o", "w">>

Unavailable == <<"u", "n", "a", "v", "a", "i", "l", "a", "b", "l", "e">>

Unknown == <<"u", "n", "k", "n", "o", "w", "n">>

On == <<"o", "n">>

Off == <<"o", "f", "f">>

\* the bullet that starts a finding (a non-ASCII bullet in the source)
Bullet == <<"*", " ">>

\* ": KRITISK LÅG BATTERI" (written here without the ring)
CriticalPhrase ==
    <<":", " ", "K", "R", "I", "T", "I", "S", "K", " ", "L", "A", "G", " ",
      "B", "A", "T", "T", "E", "R", "I">>

\* ": Lågt batteri"
LowPhrase ==
    <<":", " ", "L", "a", "g", "t", " ", "b", "a", "t", "t", "e", "r", "i">>

(***************************************************************************)
(* The scan.  A finding is the string the code appends, together with the  *)
(* entity it came from (entity_key, a history field: the code keeps the    *)
(* string only).  Each check returns the lists it was given, extended.     *)
(***************************************************************************)
Finding(entity_key, text) == [entity_key |-> entity_key, text |-> text]

Lists(critical, low) == [critical |-> critical, low |-> low]

is_battery_binary_sensor(entity_key) ==
    IF ~StartsWith(entity_key, BinarySensorPrefix) THEN FALSE
    ELSE \E i \in 1..Len(battery_terms) :
            Contains(Lower(entity_key), battery_terms[i])

\* a faulty variant of evaluate_battery_level: the thresholds are exclusive
evaluate_strict(entity_key, state, attributes, lists) ==
    IF ~IsFloat(state) THEN lists
    ELSE LET battery_level == ParseFloat(state)
             device_name == Get(attributes, "friendly_name", entity_key)
             text == Bullet \o device_name \o <<":", " ">>
                        \o FloatRepr(battery_level) \o <<"%">>
         IN  IF FloatLeq(battery_level, critical_battery_threshold - 1)
             THEN Lists(Append(lists.critical, Finding(entity_key, text)), lists.low)
             ELSE IF FloatLeq(battery_level, low_battery_threshold - 1)
             THEN Lists(lists.critical, Append(lists.low, Finding(entity_key, text)))
             ELSE lists

\* a faulty variant of evaluate_battery_level: the low threshold is compared
\* also after a critical finding ("if" for "elif")
evaluate_both(entity_key, state, attributes, lists) ==
    IF ~IsFloat(state) THEN lists
    ELSE LET battery_level == ParseFloat(state)
             device_name == Get(attributes, "friendly_name", entity_key)
             text == Bullet \o device_name \o <<":", " ">>
                        \o FloatRepr(battery_level) \o <<"%">>
             critical == IF FloatLeq(battery_level, critical_battery_threshold)
                         THEN Append(lists.critical, Finding(entity_key, text))
                         ELSE lists.critical
             low == IF FloatLeq(battery_level, low_battery_threshold)
                    THEN Append(lists.low, Finding(entity_key, text))
                    ELSE lists.low
         IN  Lists(critical, low)

\* a faulty variant of evaluate_battery_level: a reading that is no number
\* is reported as critical
evaluate_unparsed_critical(entity_key, state, attributes, lists) ==
    IF ~IsFloat(state)
    THEN Lists(Append(lists.critical,
                      Finding(entity_key, Bullet \o entity_key \o <<":", " ">> \o state)),
               lists.low)
    ELSE LET battery_level == ParseFloat(state)
             device_name == Get(attributes, "friendly_name", entity_key)
             text == Bullet \o device_name \o <<":", " ">>
                        \o FloatRepr(battery_level) \o <<"%">>
         IN  IF FloatLeq(battery_level, critical_battery_threshold)
             THEN Lists(Append(lists.critical, Finding(entity_key, text)), lists.low)
             ELSE IF FloatLeq(battery_level, low_battery_threshold)
             THEN Lists(lists.critical, Append(lists.low, Finding(entity_key, text)))
             ELSE lists

evaluate_battery_level(entity_key, state, attributes, lists) ==
    IF ~IsFloat(state) THEN lists    \* ValueError: logged, nothing appended
    ELSE LET battery_level == ParseFloat(state)
             device_name == Get(attributes, "friendly_name", entity_key)
             text == Bullet \o device_name \o <<":", " ">>
                        \o FloatRepr(battery_level) \o <<"%">>
         IN  IF FloatLeq(battery_level, critical_battery_threshold)
             THEN Lists(Append(lists.critical, Finding(entity_key, text)), lists.low)
             ELSE IF FloatLeq(battery_level, low_battery_threshold)
             THEN Lists(lists.critical, Append(lists.low, Finding(entity_key, text)))
             ELSE lists

check_battery_sensor(entity_key, entity, lists) ==
    LET attributes == Get(entity, "attributes", EmptyDict)
    IN  IF \E i \in 1..Len(skip_terms) : Contains(Lower(entity_key), skip_terms[i])
        THEN lists
        ELSE IF "state" \in DOMAIN entity /\ entity.state \notin {Unavailable, Unknown}
        THEN evaluate_battery_level(entity_key, entity.state, attributes, lists)
        ELSE lists

check_battery_binary_sensor(entity_key, entity, lists) ==
    LET attributes == Get(entity, "attributes", EmptyDict)
    IN  IF "state" \in DOMAIN entity /\ entity.state = On
        THEN LET device_name == Get(attributes, "friendly_name", entity_key)
             IN  IF Contains(Lower(entity_key), IsLow)
                 THEN Lists(Append(lists.critical,
                                   Finding(entity_key, Bullet \o device_name \o CriticalPhrase)),
                            lists.low)
                 ELSE Lists(lists.critical,
                            Append(lists.low,
                                   Finding(entity_key, Bullet \o device_name \o LowPhrase)))
        ELSE lists

\* a faulty variant of is_excluded: the exclude list is not consulted
never_excluded(entity_key) == FALSE

\* entity_key in self.exclude_list
is_excluded(entity_key) == \E i \in 1..Len(exclude_list) : exclude_list[i] = entity_key

\* one pass of the body of the for loop of daily_battery_check
check_entity(snapshot, entity_key, lists) ==
    IF is_excluded(entity_key) THEN lists
    ELSE LET entity == snapshot[entity_key]
         IN  IF DOMAIN entity = {} THEN lists      \* if not entity: continue
             ELSE LET attributes == Get(entity, "attributes", EmptyDict)
                  IN  IF "device_class" \in DOMAIN attributes
                         /\ attributes.device_class = "battery"
                      THEN check_battery_sensor(entity_key, entity, lists)
                      ELSE IF is_battery_binary_sensor(entity_key)
                      THEN check_battery_binary_sensor(entity_key, entity, lists)
                      ELSE lists

\* the for loop over sorted(states), from position i of the sorted keys
RECURSIVE scan_from(_, _, _, _)
scan_from(snapshot, keys, i, lists) ==
    IF i > Len(keys) THEN lists
    ELSE scan_from(snapshot, keys, i + 1, check_entity(snapshot, keys[i], lists))

\* a faulty variant of scan_order: the identifiers are taken in descending order
scan_order_descending(snapshot) ==
    LET keys == sorted(DOMAIN snapshot)
    IN  [i \in 1..Len(keys) |-> keys[Len(keys) + 1 - i]]

\* sorted(states): the identifiers of the snapshot in the order of the for loop
scan_order(snapshot) == sorted(DOMAIN snapshot)

scan(snapshot) == scan_from(snapshot, scan_order(snapshot), 1, Lists(<<>>, <<>>))

(***************************************************************************)
(* The notification.                                                       *)
(***************************************************************************)
\* "KRITISK LÅG BATTERI:" after its symbol, the heading of the critical section
CriticalHeading ==
    <<"K", "R", "I", "T", "I", "S", "K", " ", "L", "A", "G", " ",
      "B", "A", "T", "T", "E", "R", "I", ":">>

\* "Lågt batteri:" after its symbol, the heading of the low section
LowHeading ==
    <<"L", "a", "g", "t", " ", "b", "a", "t", "t", "e", "r", "i", ":">>

\* a faulty variant of no_findings: a notification is composed for every scan
always_report(critical, low) == FALSE

\* not critical_devices and not low_devices
no_findings(critical, low) == critical = <<>> /\ low = <<>>

Texts(findings) == [i \in 1..Len(findings) |-> findings[i].text]

\* a faulty variant of message_parts: the low section is put first
message_parts_low_first(critical, low) ==
    (IF low # <<>> THEN <<LowHeading>> \o Texts(low) \o << <<>> >> ELSE <<>>)
        \o (IF critical # <<>> THEN <<CriticalHeading>> \o Texts(critical) ELSE <<>>)

\* message_parts of _send_battery_notifications; full_message joins them by "\n"
message_parts(critical, low) ==
    (IF critical # <<>> THEN <<CriticalHeading>> \o Texts(critical) \o << <<>> >> ELSE <<>>)
        \o (IF low # <<>> THEN <<LowHeading>> \o Texts(low) ELSE <<>>)

Ignore == <<"i", "g", "n", "o", "r", "e">>

\* the action of the notification's button: f"{self.name}.ignore.{notify_addr}"
action_token(app, notify_addr) == app \o <<".">> \o Ignore \o <<".">> \o notify_addr

\* not notify_addr: the key is missing or the address is empty
has_address(person) == "notify" \in DOMAIN person /\ person.notify # <<>>

\* a faulty variant of in_cooldown: the window is one tick short
in_cooldown_short(person, cooldowns, t) ==
    LET cooldown == Get(person, "cooldown", 0)
    IN  cooldown > 0 /\ t - Get(cooldowns, person.notify, 0) < cooldown - 1

\* a faulty variant of in_cooldown: the entry is consulted for every cooldown
in_cooldown_unguarded(person, cooldowns, t) ==
    t - Get(cooldowns, person.notify, 0) < Get(person, "cooldown", 0)

\* a faulty variant of in_cooldown: the end of the window is still suppressed
in_cooldown_inclusive(person, cooldowns, t) ==
    LET cooldown == Get(person, "cooldown", 0)
    IN  cooldown > 0 /\ t - Get(cooldowns, person.notify, 0) <= cooldown

\* the cooldown check of _notify_persons, at time t
in_cooldown(person, cooldowns, t) ==
    LET cooldown == Get(person, "cooldown", 0)
    IN  cooldown > 0 /\ t - Get(cooldowns, person.notify, 0) < cooldown

\* a faulty variant of on_delivery_failure: the failure starts a cooldown window
on_delivery_failure_recorded(cooldowns, notify_addr, t) == Put(cooldowns, notify_addr, t)

\* the except branch of _notify_persons: the failure is logged
on_delivery_failure(cooldowns, notify_addr, t) == cooldowns

\* a faulty variant of after_failure: the exception leaves the loop
after_failure_abort(i) == Len(persons) + 1

\* where the for loop goes on after a failed delivery
after_failure(i) == i + 1

\* days added by the ignore action
IgnoreDays == 3

\* a faulty variant of ignore_until: three days from now, not from midnight
ignore_until_from_now(t) == t + IgnoreDays * TicksPerDay

\* future_time.timestamp() of phone_action, with dt_now = datetime.now(self.timezone) at t
ignore_until(t) ==
    LET dt_now == t + timezone.utcoffset
        midnight == dt_now - (dt_now % TicksPerDay)
    IN  (midnight - timezone.tzinfo) + IgnoreDays * TicksPerDay

\* a faulty variant of is_own_action: the namespace is not compared
is_own_action_any(action) == Len(action) >= 3

\* not (len(action) < 3 or action[0] != self.name)
is_own_action(action) == ~(Len(action) < 3 \/ action[1] # name)

\* no ignore was handled since the cooldown check of the current person
NoAck == 0 - 1

current_address == IF pc \in {"send", "record"} THEN persons[idx].notify ELSE <<>>

(***************************************************************************)
(* Inputs.                                                                 *)
(***************************************************************************)
App == <<"a", "p", "p">>
Other == <<"o", "t", "h">>
P1 == <<"p", "1">>
P2 == <<"p", "2">>
SensorA == <<"s", "e", "n", "s", "o", "r", ".", "a">>
SensorB == <<"s", "e", "n", "s", "o", "r", ".", "b">>
SensorPower == <<"s", "e", "n", "s", "o", "r", ".", "c", "_", "p", "o", "w", "e", "r">>
SensorIsLow == <<"s", "e", "n", "s", "o", "r", ".", "x", "_", "i", "s", "l", "o", "w">>
BinaryIsLow ==
    <<"b", "i", "n", "a", "r", "y", "_", "s", "e", "n", "s", "o", "r", ".",
      "x", "_", "i", "s", "l", "o", "w">>
BinaryBattery ==
    <<"b", "i", "n", "a", "r", "y", "_", "s", "e", "n", "s", "o", "r", ".",
      "y", "_", "b", "a", "t", "t", "e", "r", "y">>
BinaryUpper ==
    <<"b", "i", "n", "a", "r", "y", "_", "s", "e", "n", "s", "o", "r", ".",
      "Z", "_", "B", "A", "T", "T">>
BinaryDoor ==
    <<"b", "i", "n", "a", "r", "y", "_", "s", "e", "n", "s", "o", "r", ".",
      "d", "o", "o", "r">>

Battery(state) == [state |-> state, attributes |-> [device_class |-> "battery"]]

\* the persons lists: addresses are distinct, cooldowns are whole ticks that
\* are shorter than the time since the epoch; a cooldown is positive, zero or
\* not configured
PersonsPool ==
    { << [cooldown |-> 1], [notify |-> P1, cooldown |-> 2], [notify |-> P2] >>,
      << [notify |-> P1, cooldown |-> 1] >>,
      << [notify |-> P2, cooldown |-> 0] >> }

\* a zone at UTC, a zone one tick east of it, and a zone whose tzinfo object
\* carries another offset than the one in force (pytz attaches the zone's first
\* offset when a zone is passed as tzinfo=)
TimezonePool ==
    { [utcoffset |-> 0, tzinfo |-> 0],
      [utcoffset |-> 1, tzinfo |-> 1],
      [utcoffset |-> 1, tzinfo |-> 0] }

\* the snapshots of the scans of the full program
MainSnapshots ==
    { (SensorA :> Battery(<<"2", "5">>)),
      (SensorA :> Battery(<<"5">>)) @@ (SensorB :> Battery(<<"1", "5">>)) }

\* the payloads of the mobile_app_notification_action events
ActionData ==
    { EmptyDict,
      [action |-> action_token(App, P1)],
      [action |-> action_token(App, P2)],
      [action |-> action_token(Other, P1)],
      [action |-> App \o <<".">> \o Ignore],
      [action |-> App \o <<".">> \o <<"n", "o">> \o <<".">> \o P2],
      [action |-> action_token(App, P1) \o <<".">> \o <<"x">>] }

(***************************************************************************)
(* Initial states: after initialize(), before its first scan.              *)
(***************************************************************************)
InitCommon ==
    /\ name = App
    /\ msg_cooldown = EmptyDict
    /\ pc = "idle"
    /\ states = EmptyDict
    /\ critical_devices = <<>>
    /\ low_devices = <<>>
    /\ message = <<>>
    /\ idx = 0
    /\ now = TicksPerDay
    /\ visited = <<>>
    /\ delivered = EmptyDict
    /\ mid_ack = NoAck

Init ==
    /\ InitCommon
    /\ persons \in PersonsPool
    /\ timezone \in TimezonePool
    /\ exclude_list = <<>>
    /\ low_battery_threshold = 20
    /\ critical_battery_threshold = 10

(***************************************************************************)
(* Actions.                                                                *)
(***************************************************************************)
\* daily_battery_check up to its call of _send_battery_notifications
RunScan(snapshot) ==
    /\ pc = "idle"
    /\ pc' = "scanned"
    /\ states' = snapshot
    /\ LET lists == scan(snapshot)
       IN  /\ critical_devices' = lists.critical
           /\ low_devices' = lists.low
    /\ UNCHANGED <<config_vars, msg_cooldown, message, idx, now, visited, delivered, mid_ack>>

\* _send_battery_notifications with nothing to report
NothingFound ==
    /\ pc = "scanned"
    /\ no_findings(critical_devices, low_devices)
    /\ pc' = "idle"
    /\ states' = EmptyDict
    /\ UNCHANGED <<config_vars, msg_cooldown, critical_devices, low_devices, message,
                   idx, now, visited, delivered, mid_ack>>

\* _send_battery_notifications builds the message and enters _notify_persons
Compose ==
    /\ pc = "scanned"
    /\ ~no_findings(critical_devices, low_devices)
    /\ message' = message_parts(critical_devices, low_devices)
    /\ pc' = "notify"
    /\ idx' = 1
    /\ UNCHANGED <<config_vars, msg_cooldown, states, critical_devices, low_devices,
                   now, visited, delivered, mid_ack>>

\* the history entry of person i: whether it has an address, whether the time
\* since its cooldown entry is shorter than its cooldown, and what was done
Visit(i, outcome) ==
    [person |-> i,
     addressed |-> "notify" \in DOMAIN persons[i] /\ persons[i].notify # <<>>,
     in_window |->
        /\ "notify" \in DOMAIN persons[i]
        /\ "cooldown" \in DOMAIN persons[i]
        /\ persons[i].cooldown > 0
        /\ now - (IF persons[i].notify \in DOMAIN msg_cooldown
                  THEN msg_cooldown[persons[i].notify] ELSE 0) < persons[i].cooldown,
     outcome |-> outcome]

\* the person has no notify address: warning, continue
NotifyMissingAddress ==
    /\ pc = "notify" /\ idx <= Len(persons)
    /\ ~has_address(persons[idx])
    /\ idx' = idx + 1
    /\ visited' = Append(visited, Visit(idx, "missing"))
    /\ UNCHANGED <<config_vars, scan_vars, msg_cooldown, pc, now, delivered, mid_ack>>

\* the person is within its cooldown: continue
NotifyCooldown ==
    /\ pc = "notify" /\ idx <= Len(persons)
    /\ has_address(persons[idx])
    /\ in_cooldown(persons[idx], msg_cooldown, now)
    /\ idx' = idx + 1
    /\ visited' = Append(visited, Visit(idx, "cooldown"))
    /\ UNCHANGED <<config_vars, scan_vars, msg_cooldown, pc, now, delivered, mid_ack>>

\* the person passes the cooldown check: on to call_service
NotifyPass ==
    /\ pc = "notify" /\ idx <= Len(persons)
    /\ has_address(persons[idx])
    /\ ~in_cooldown(persons[idx], msg_cooldown, now)
    /\ pc' = "send"
    /\ visited' = Append(visited, Visit(idx, "attempt"))
    /\ mid_ack' = NoAck
    /\ UNCHANGED <<config_vars, scan_vars, msg_cooldown, idx, now, delivered>>

\* call_service returns
CallServiceOk ==
    /\ pc = "send"
    /\ pc' = "record"
    /\ delivered' = Put(delivered, persons[idx].notify, now)
    /\ visited' = [visited EXCEPT ![Len(visited)].outcome = "sent"]
    /\ UNCHANGED <<config_vars, scan_vars, msg_cooldown, idx, now, mid_ack>>

\* call_service raises: the except branch, then the next person
CallServiceFails ==
    /\ pc = "send"
    /\ msg_cooldown' = on_delivery_failure(msg_cooldown, persons[idx].notify, now)
    /\ idx' = after_failure(idx)
    /\ pc' = "notify"
    /\ visited' = [visited EXCEPT ![Len(visited)].outcome = "failed"]
    /\ mid_ack' = NoAck
    /\ UNCHANGED <<config_vars, scan_vars, now, delivered>>

\* self.msg_cooldown[notify_addr] = time.time(), then the next person
RecordSend ==
    /\ pc = "record"
    /\ msg_cooldown' = Put(msg_cooldown, persons[idx].notify, now)
    /\ idx' = idx + 1
    /\ pc' = "notify"
    /\ mid_ack' = NoAck
    /\ UNCHANGED <<config_vars, scan_vars, now, visited, delivered>>

\* the for loop of _notify_persons ends
NotifyEnd ==
    /\ pc = "notify" /\ idx > Len(persons)
    /\ pc' = "done"
    /\ UNCHANGED <<config_vars, scan_vars, msg_cooldown, idx, now, visited, delivered, mid_ack>>

\* the last log line of _send_battery_notifications; the scan returns
Finish ==
    /\ pc = "done"
    /\ pc' = "idle"
    /\ states' = EmptyDict
    /\ critical_devices' = <<>>
    /\ low_devices' = <<>>
    /\ message' = <<>>
    /\ idx' = 0
    /\ visited' = <<>>
    /\ UNCHANGED <<config_vars, msg_cooldown, now, delivered, mid_ack>>

\* phone_action(event_name, data, kwargs): runs on a worker thread, at any
\* point of a scan
phone_action(data) ==
    LET action == split(Get(data, "action", <<>>), ".")
    IN  IF ~is_own_action(action)
        THEN UNCHANGED vars
        ELSE IF action[2] = Ignore
        THEN /\ msg_cooldown' = Put(msg_cooldown, action[3], ignore_until(now))
             /\ mid_ack' = IF action[3] = current_address THEN ignore_until(now) ELSE mid_ack
             /\ UNCHANGED <<config_vars, scan_vars, pc, idx, now, visited, delivered>>
        ELSE UNCHANGED vars

\* the clock advances
Tick ==
    /\ now < TicksPerDay + Horizon
    /\ now' = now + 1
    /\ UNCHANGED <<config_vars, scan_vars, msg_cooldown, pc, idx, visited, delivered, mid_ack>>

Next ==
    \/ \E snapshot \in MainSnapshots : RunScan(snapshot)
    \/ NothingFound
    \/ Compose
    \/ NotifyMissingAddress
    \/ NotifyCooldown
    \/ NotifyPass
    \/ CallServiceOk
    \/ CallServiceFails
    \/ RecordSend
    \/ NotifyEnd
    \/ Finish
    \/ \E data \in ActionData : phone_action(data)
    \/ Tick

Spec == Init /\ [][Next]_vars

(***************************************************************************)
(* The scan on its own: the program with no person configured, over a      *)
(* wider range of snapshots, exclude lists and thresholds.                 *)
(***************************************************************************)
Named(state, device_class) ==
    [state |-> state,
     attributes |-> [device_class |-> device_class, friendly_name |-> <<"N">>]]

Plain(state) == [state |-> state, attributes |-> EmptyDict]

\* a power-level report with a display name of its own
Called(state, friendly_name) ==
    [state |-> state,
     attributes |-> [device_class |-> "battery", friendly_name |-> friendly_name]]

Readings ==
    { <<"5">>, <<"1", "0">>, <<"1", "0", ".", "5">>, <<"2", "0">>,
      <<"2", "0", ".", "5">> }

\* the entities a snapshot may hold under each identifier
Variants(entity_key) ==
    CASE entity_key = SensorA ->
            {Battery(r) : r \in Readings \cup {Unavailable, Unknown, On, <<"5", "%">>}}
                \cup {[attributes |-> [device_class |-> "battery"]]}
                \cup {Named(r, "battery") : r \in Readings}
                \cup {Plain(<<"5">>), Called(<<"1", "0">>, <<"z">>)}
      [] entity_key = SensorB -> {Battery(<<"5">>), Battery(<<"2", "0">>)}
      [] entity_key = SensorPower -> {Battery(<<"5">>), Plain(<<"5">>)}
      [] entity_key = SensorIsLow -> {Plain(On), Battery(On)}
      [] entity_key = BinaryIsLow ->
            {Plain(On), Plain(Off), Plain(Unavailable), Battery(On), Battery(<<"5">>),
             Named(On, "door"), [attributes |-> EmptyDict], EmptyDict}
      [] entity_key = BinaryBattery -> {Plain(On), Plain(Off), Battery(On), Battery(Off)}
      [] entity_key = BinaryUpper -> {Plain(On), Plain(Off)}
      [] entity_key = BinaryDoor -> {Plain(On)}

ScanIds ==
    {SensorA, SensorB, SensorPower, SensorIsLow, BinaryIsLow, BinaryBattery,
     BinaryUpper, BinaryDoor}

RECURSIVE SnapshotsOver(_)
SnapshotsOver(S) ==
    IF S = {} THEN {EmptyDict}
    ELSE LET k == CHOOSE k \in S : TRUE
         IN  {(k :> e) @@ f : e \in Variants(k), f \in SnapshotsOver(S \ {k})}

ScanSnapshots ==
    UNION {SnapshotsOver(S) : S \in {T \in SUBSET ScanIds : Cardinality(T) <= MaxEntities}}

ExcludePool == { <<>>, <<SensorA, BinaryIsLow>>, <<SensorB, BinaryBattery, SensorPower>> }

\* thresholds in the recommended order, equal, and in the reverse order
ThresholdPool ==
    { [critical |-> 10, low |-> 20], [critical |-> 5, low |-> 10],
      [critical |-> 10, low |-> 10], [critical |-> 20, low |-> 10] }

InitScan ==
    /\ InitCommon
    /\ persons = <<>>
    /\ timezone = [utcoffset |-> 0, tzinfo |-> 0]
    /\ exclude_list \in ExcludePool
    /\ \E t \in ThresholdPool :
          /\ critical_battery_threshold = t.critical
          /\ low_battery_threshold = t.low

NextScan ==
    \/ \E snapshot \in ScanSnapshots : RunScan(snapshot)
    \/ NothingFound
    \/ Compose
    \/ NotifyEnd
    \/ Finish

SpecScan == InitScan /\ [][NextScan]_vars

(***************************************************************************)
(* The action token on its way out and back: instance names and delivery   *)
(* addresses with and without a "." in them, and the only events are the   *)
(* buttons of delivered notifications, pressed with the action unchanged.  *)
(***************************************************************************)
DottedApp == <<"a", ".", "b">>

DottedAddress == <<"p", ".", "1">>

NamePool == {App, DottedApp}

TokenPersonsPool ==
    { << [notify |-> P1, cooldown |-> 1] >>,
      << [notify |-> DottedAddress, cooldown |-> 1] >>,
      << [notify |-> P2], [notify |-> DottedAddress] >> }

InitToken ==
    /\ name \in NamePool
    /\ persons \in TokenPersonsPool
    /\ timezone = [utcoffset |-> 0, tzinfo |-> 0]
    /\ exclude_list = <<>>
    /\ low_battery_threshold = 20
    /\ critical_battery_threshold = 10
    /\ msg_cooldown = EmptyDict
    /\ pc = "idle"
    /\ states = EmptyDict
    /\ critical_devices = <<>>
    /\ low_devices = <<>>
    /\ message = <<>>
    /\ idx = 0
    /\ now = TicksPerDay
    /\ visited = <<>>
    /\ delivered = EmptyDict
    /\ mid_ack = NoAck

\* the button of a notification that was delivered to person i is pressed:
\* the event carries the action that _notify_persons put into the notification
ReturnAction(i) ==
    /\ has_address(persons[i])
    /\ persons[i].notify \in DOMAIN delivered
    /\ phone_action([action |-> action_token(name, persons[i].notify)])

NextToken ==
    \/ \E snapshot \in MainSnapshots : RunScan(snapshot)
    \/ NothingFound
    \/ Compose
    \/ NotifyCooldown
    \/ NotifyPass
    \/ CallServiceOk
    \/ CallServiceFails
    \/ RecordSend
    \/ NotifyEnd
    \/ Finish
    \/ \E i \in 1..Len(persons) : ReturnAction(i)
    \/ Tick

SpecToken == InitToken /\ [][NextToken]_vars

(***************************************************************************)
(* Properties.                                                             *)
(***************************************************************************)
\* the step in which call_service delivers to the current person
Delivers == pc = "send" /\ pc' = "record"

\* the segments of the action token of a payload, split as Python splits it
TokenOf(data) == split(IF "action" \in DOMAIN data THEN data.action ELSE <<>>, ".")

\* the payload is a well-formed ignore token of this instance
WellFormedIgnore(data) ==
    /\ Len(TokenOf(data)) >= 3
    /\ TokenOf(data)[1] = name
    /\ TokenOf(data)[2] = Ignore

\* a step that changes the state and leaves the position of the scan and the
\* clock as they are: only phone_action takes such steps
PhoneStep == UNCHANGED <<pc, idx, now, visited>> /\ vars' # vars

\* how many findings of a list come from entity k
CountOf(findings, k) == Cardinality({i \in 1..Len(findings) : findings[i].entity_key = k})

Excluded(k) == \E i \in 1..Len(exclude_list) : exclude_list[i] = k

\* C1: for a recipient with cooldown c > 0, two successful deliveries to its
\* address are at least c apart: whenever call_service delivers to it and an
\* earlier delivery to the address exists, that one is at least c old.
C1_DeliveriesCooldownApart ==
    [][Delivers =>
         LET person == persons[idx]
         IN  ("cooldown" \in DOMAIN person /\ person.cooldown > 0
                 /\ person.notify \in DOMAIN delivered)
                => now - delivered[person.notify] >= person.cooldown]_vars

\* C1 witness: a second delivery to a recipient with a cooldown has just been
\* made, the send time recorded for the first one being at least c old.
C1_Witness ==
    /\ pc = "record"
    /\ "cooldown" \in DOMAIN persons[idx] /\ persons[idx].cooldown > 0
    /\ persons[idx].notify \in DOMAIN msg_cooldown
    /\ msg_cooldown[persons[idx].notify] <= now
    /\ delivered[persons[idx].notify] - msg_cooldown[persons[idx].notify]
          >= persons[idx].cooldown

\* C2 (as claimed): once an ignore action has set the entry of an address to
\* the instant T, no scan that checks the recipient afterwards delivers to
\* that address before T, whatever the recipient's cooldown: no delivery is
\* made to an address whose entry lay in the future when the dispatcher came
\* to the recipient (no ignore was handled since).
C2_NoDeliveryWhileIgnored ==
    [][(Delivers /\ mid_ack = NoAck) =>
         ~(persons[idx].notify \in DOMAIN msg_cooldown
             /\ now < msg_cooldown[persons[idx].notify])]_vars

\* C3 (as claimed): when an ignore action for the current person's address was
\* handled between the cooldown check and the recording of the send time, the
\* entry after the recording is the ignore-until instant.
C3_AckNotOverwritten ==
    [][(pc = "record" /\ pc' # "record" /\ mid_ack # NoAck)
          => msg_cooldown'[persons[idx].notify] = mid_ack]_vars

C5_ActionFrame ==
    [][PhoneStep => \A data \in ActionData :
          phone_action(data)
             => IF WellFormedIgnore(data)
                THEN /\ DOMAIN msg_cooldown' = DOMAIN msg_cooldown \cup {TokenOf(data)[3]}
                     /\ \A k \in DOMAIN msg_cooldown :
                           k # TokenOf(data)[3] => msg_cooldown'[k] = msg_cooldown[k]
                ELSE msg_cooldown' = msg_cooldown]_vars

\* C5 witness: an ignore action has set the entry of P1, and no other entry.
C5_Witness ==
    /\ DOMAIN msg_cooldown = {P1}
    /\ msg_cooldown[P1] > now
    /\ pc = "idle"

\* C6: a failed delivery leaves the cooldown dict exactly as it was, so the
\* failed recipient is not in a cooldown window because of it.
C6_FailureKeepsCooldown ==
    [][(pc = "send" /\ pc' = "notify") => msg_cooldown' = msg_cooldown]_vars

\* C6 witness: the delivery to a recipient that was never notified failed and
\* its entry is still unset.
C6_Witness ==
    \E i \in 1..Len(visited) :
        /\ visited[i].outcome = "failed"
        /\ persons[visited[i].person].notify \notin DOMAIN msg_cooldown

\* a step of _notify_persons
DispatchStep ==
    \/ NotifyMissingAddress \/ NotifyCooldown \/ NotifyPass \/ CallServiceOk
    \/ CallServiceFails \/ RecordSend \/ NotifyEnd

\* C7: the dispatch visits the persons in configured order, can always take
\* its next step and, when it is over, has visited every one of them; each
\* that has an address and was not within its cooldown window got a delivery
\* attempt, whatever happened to the others.
C7_EveryEligibleAttempted ==
    /\ \A i \in 1..Len(visited) : visited[i].person = i
    /\ pc \in {"notify", "send", "record"} => ENABLED DispatchStep
    /\ pc = "done" =>
          /\ Len(visited) = Len(persons)
          /\ \A i \in 1..Len(visited) :
                (visited[i].addressed /\ ~visited[i].in_window)
                   => visited[i].outcome \in {"sent", "failed"}

\* C7 witness: a dispatch is over in which the first person had no address,
\* the delivery to the second failed and the third was delivered to.
C7_Witness ==
    /\ pc = "done"
    /\ Len(visited) = 3
    /\ visited[1].outcome = "missing"
    /\ visited[2].outcome = "failed"
    /\ visited[3].outcome = "sent"

\* C8: an entity whose identifier is in the exclude list yields no finding in
\* either list, whatever its attributes and reading, while a power-level
\* report that is not excluded and reads at most the low threshold is reported.
C8_ExcludedNeverReported ==
    pc # "idle" =>
        \A k \in DOMAIN states :
            /\ Excluded(k) => CountOf(critical_devices, k) + CountOf(low_devices, k) = 0
            /\ (/\ ~Excluded(k)
                /\ states[k] \in {Battery(r) : r \in Readings}
                /\ \A i \in 1..Len(skip_terms) : ~Contains(Lower(k), skip_terms[i])
                /\ FloatLeq(ParseFloat(states[k].state), low_battery_threshold))
                  => CountOf(critical_devices, k) + CountOf(low_devices, k) = 1

\* C8 witness: a scan of an excluded critical power-level report and of one
\* that is not excluded, which alone is reported.
C8_Witness ==
    /\ pc = "scanned"
    /\ Excluded(SensorA) /\ ~Excluded(SensorB)
    /\ DOMAIN states = {SensorA, SensorB}
    /\ states[SensorA] = Battery(<<"5">>)
    /\ Len(critical_devices) = 1
    /\ critical_devices[1].entity_key = SensorB
    /\ low_devices = <<>>

C10_BinaryIndicator ==
    pc # "idle" =>
        \A k \in DOMAIN states :
            (/\ ~Excluded(k)
             /\ StartsWith(k, BinarySensorPrefix)
             /\ \E i \in 1..Len(battery_terms) : Contains(Lower(k), battery_terms[i]))
               => LET on == "state" \in DOMAIN states[k] /\ states[k].state = On
                      islow == Contains(Lower(k), IsLow)
                  IN  /\ CountOf(critical_devices, k) = (IF on /\ islow THEN 1 ELSE 0)
                      /\ CountOf(low_devices, k) = (IF on /\ ~islow THEN 1 ELSE 0)

\* the identifiers of the entities of a list of findings, in list order
KeysOf(findings) == [i \in 1..Len(findings) |-> findings[i].entity_key]

\* C11: after a scan, the critical list and the low list each hold their
\* findings in ascending lexicographic order of the identifiers of the
\* entities they come from, whatever the display names and the readings: in
\* each list the identifiers are entities of the snapshot and every finding's
\* identifier is smaller than the identifier of every later finding.
C11_ListsInIdentifierOrder ==
    pc # "idle" =>
        \A findings \in {critical_devices, low_devices} :
            /\ \A i \in 1..Len(findings) : KeysOf(findings)[i] \in DOMAIN states
            /\ \A i, j \in 1..Len(findings) :
                  i < j => StrLess(KeysOf(findings)[i], KeysOf(findings)[j])

\* C11 witness: two critical findings in identifier order, the first with the
\* greater display name ("z" after "sensor.b") and the greater reading.
C11_Witness ==
    /\ pc = "scanned"
    /\ DOMAIN states = {SensorA, SensorB}
    /\ states[SensorA] = Called(<<"1", "0">>, <<"z">>)
    /\ states[SensorB] = Battery(<<"5">>)
    /\ KeysOf(critical_devices) = <<SensorA, SensorB>>

\* C12: _send_battery_notifications hands a message to the dispatcher exactly
\* when a list is non-empty: the step that ends a scan without findings
\* returns with no person visited, no delivery made and the cooldown dict as
\* it was, and the step that ends a scan with a finding composes a message
\* and enters the dispatcher at its first person; the dispatcher is never
\* running for empty lists.
C12_NotificationIffFindings ==
    [][/\ (pc = "scanned" /\ pc' # "scanned") =>
             IF critical_devices = <<>> /\ low_devices = <<>>
             THEN /\ pc' = "idle"
                  /\ msg_cooldown' = msg_cooldown
                  /\ delivered' = delivered
                  /\ visited' = <<>>
             ELSE /\ pc' = "notify" /\ idx' = 1
                  /\ message' # <<>>
       /\ pc' \in {"notify", "send", "record", "done"} =>
             (critical_devices' # <<>> \/ low_devices' # <<>>)]_vars

\* C12 witness: a scan has found nothing while a cooldown entry from an
\* earlier notification exists.
C12_Witness ==
    /\ pc = "scanned"
    /\ states # EmptyDict
    /\ critical_devices = <<>> /\ low_devices = <<>>
    /\ DOMAIN delivered # {}
    /\ DOMAIN msg_cooldown # {}

\* the delivery addresses of the configured persons
ConfiguredAddresses ==
    {persons[i].notify : i \in {j \in 1..Len(persons) : "notify" \in DOMAIN persons[j]}}

\* C13 (as claimed): every key of the cooldown dict is the delivery address of
\* a configured person, and a key enters the dict only by the recording of a
\* successful delivery to that address or by an ignore action.
C13_CooldownKeysConfigured ==
    [][\A k \in DOMAIN msg_cooldown' :
          /\ k \in ConfiguredAddresses
          /\ k \notin DOMAIN msg_cooldown =>
                \/ pc = "record" /\ k = persons[idx].notify /\ k \in DOMAIN delivered
                \/ PhoneStep]_vars

\* person i has a delivery address and a cooldown that is zero or not configured
Unthrottled(i) ==
    /\ "notify" \in DOMAIN persons[i] /\ persons[i].notify # <<>>
    /\ "cooldown" \in DOMAIN persons[i] => persons[i].cooldown = 0

\* C14: a recipient whose cooldown is zero or not configured is never
\* suppressed: the step the dispatcher takes when it comes to such a person
\* goes on to call_service, whatever the cooldown entry of the address holds,
\* and when a dispatch is over every such person got a delivery attempt.
C14_ZeroCooldownNeverSuppressed ==
    [][/\ (pc = "notify" /\ idx <= Len(persons) /\ (idx' # idx \/ pc' # pc)
              /\ Unthrottled(idx)) => pc' = "send"
       /\ (pc # "done" /\ pc' = "done") =>
             \A i \in 1..Len(persons) :
                 Unthrottled(i) => visited'[i].outcome \in {"sent", "failed"}]_vars

\* C14 witness: the dispatcher is about to call the service for a person
\* without cooldown whose cooldown entry lies in the future.
C14_Witness ==
    /\ pc = "send"
    /\ Unthrottled(idx)
    /\ persons[idx].notify \in DOMAIN msg_cooldown
    /\ msg_cooldown[persons[idx].notify] > now
    /\ mid_ack = NoAck

\* a power-level report whose reading is absent, "unavailable", "unknown" or
\* no number
Malformed(entity) ==
    /\ "attributes" \in DOMAIN entity
    /\ "device_class" \in DOMAIN entity.attributes
    /\ entity.attributes.device_class = "battery"
    /\ \/ "state" \notin DOMAIN entity
       \/ entity.state \in {Unavailable, Unknown}
       \/ ~IsFloat(entity.state)

\* the snapshot without entity k
Without(snapshot, k) == [x \in (DOMAIN snapshot) \ {k} |-> snapshot[x]]

\* C15: a power-level report whose reading is absent, "unavailable",
\* "unknown" or not a number yields no finding, and the scan goes on past it:
\* both lists are exactly the lists that the scan of the snapshot without
\* that entity produces.
C15_MalformedEntitySkipped ==
    pc # "idle" =>
        \A k \in DOMAIN states :
            Malformed(states[k]) =>
                /\ CountOf(critical_devices, k) + CountOf(low_devices, k) = 0
                /\ Lists(critical_devices, low_devices) = scan(Without(states, k))

\* C15 witness: the first entity of the scan has no reading, and the entity
\* after it is reported.
C15_Witness ==
    /\ pc = "scanned"
    /\ DOMAIN states = {SensorA, SensorB}
    /\ "state" \notin DOMAIN states[SensorA]
    /\ Malformed(states[SensorA])
    /\ KeysOf(critical_devices) = <<SensorB>>
    /\ low_devices = <<>>

\* C16: the lines of a composed message are: when the critical list is not
\* empty, the critical heading, the critical findings in list order and a
\* blank line; then, when the low list is not empty, the low heading and the
\* low findings in list order; and nothing else, so the critical section
\* comes first and an empty list has no heading.
C16_MessageSections ==
    pc \in {"notify", "send", "record", "done"} =>
        LET c == Len(critical_devices)
            l == Len(low_devices)
            off == IF c > 0 THEN c + 2 ELSE 0
        IN  /\ Len(message) = off + (IF l > 0 THEN l + 1 ELSE 0)
            /\ c > 0 =>
                  /\ message[1] = CriticalHeading
                  /\ \A i \in 1..c : message[1 + i] = critical_devices[i].text
                  /\ message[c + 2] = <<>>
            /\ l > 0 =>
                  /\ message[off + 1] = LowHeading
                  /\ \A i \in 1..l : message[off + 1 + i] = low_devices[i].text
            /\ \A i \in 1..Len(message) :
                  /\ message[i] = CriticalHeading => (i = 1 /\ c > 0)
                  /\ message[i] = LowHeading => (i = off + 1 /\ l > 0)

\* C16 witness: a message with both sections has been composed.
C16_Witness ==
    /\ pc = "notify"
    /\ Len(critical_devices) = 1 /\ Len(low_devices) = 1
    /\ Len(message) = 5
    /\ message[1] = CriticalHeading
    /\ message[4] = LowHeading

\* person i has a delivery address and a cooldown c > 0
Throttled(i) ==
    /\ "notify" \in DOMAIN persons[i] /\ persons[i].notify # <<>>
    /\ "cooldown" \in DOMAIN persons[i] /\ persons[i].cooldown > 0

\* C17: when the dispatcher comes, at time now, to a person with cooldown
\* c > 0 whose entry is t0 (0 when unset), it skips the person exactly when
\* now - t0 < c: the skip makes no delivery and leaves the cooldown dict as it
\* is, and otherwise (also at now - t0 = c) the dispatcher goes on to
\* call_service; the recording of a successful delivery sets the entry of
\* the address to the time of the recording and leaves the other entries.
C17_DispatcherStepRule ==
    [][/\ (pc = "notify" /\ idx <= Len(persons) /\ (idx' # idx \/ pc' # pc)
              /\ Throttled(idx)) =>
             LET addr == persons[idx].notify
                 t0 == IF addr \in DOMAIN msg_cooldown THEN msg_cooldown[addr] ELSE 0
             IN  IF now - t0 < persons[idx].cooldown
                 THEN /\ pc' = "notify" /\ idx' = idx + 1
                      /\ msg_cooldown' = msg_cooldown
                      /\ delivered' = delivered
                      /\ visited'[idx].outcome = "cooldown"
                 ELSE /\ pc' = "send" /\ idx' = idx
                      /\ msg_cooldown' = msg_cooldown
       /\ (pc = "record" /\ pc' # "record") =>
             LET addr == persons[idx].notify
             IN  /\ DOMAIN msg_cooldown' = DOMAIN msg_cooldown \cup {addr}
                 /\ msg_cooldown'[addr] = now
                 /\ \A k \in DOMAIN msg_cooldown :
                       k # addr => msg_cooldown'[k] = msg_cooldown[k]]_vars

\* C17 witness: a person with a cooldown passed the check with its entry
\* exactly one cooldown old, and the delivery is being recorded.
C17_Witness ==
    /\ pc = "record"
    /\ Throttled(idx)
    /\ mid_ack = NoAck
    /\ persons[idx].notify \in DOMAIN msg_cooldown
    /\ now - msg_cooldown[persons[idx].notify] = persons[idx].cooldown

\* C18 (as claimed): the suppression caused by an ignore action ends at the
\* ignore-until instant T: when the dispatcher comes, at a time now >= T, to a
\* person whose entry is the T of an ignore action (the address has an entry
\* and was never delivered to, so the entry was written by phone_action and
\* no send followed it), it goes on to call_service, whatever the cooldown.
C18_IgnoreEndsAtInstant ==
    [][(/\ pc = "notify" /\ idx <= Len(persons) /\ (idx' # idx \/ pc' # pc)
        /\ "notify" \in DOMAIN persons[idx] /\ persons[idx].notify # <<>>
        /\ persons[idx].notify \in DOMAIN msg_cooldown
        /\ persons[idx].notify \notin DOMAIN delivered
        /\ msg_cooldown[persons[idx].notify] <= now)
          => pc' = "send"]_vars

\* C19 (as claimed): whenever a notification has been delivered to the
\* address A of a configured person, handling the action of that notification
\* unchanged sets the cooldown entry keyed by exactly A to the ignore-until
\* instant, also when A or the instance name contains a ".".
C19_TokenRoundTrip ==
    \A i \in 1..Len(persons) :
        (has_address(persons[i]) /\ persons[i].notify \in DOMAIN delivered) =>
            ENABLED (/\ ReturnAction(i)
                     /\ persons[i].notify \in DOMAIN msg_cooldown'
                     /\ msg_cooldown'[persons[i].notify] = ignore_until(now))

\* the entity has device_class "battery": the numeric path is taken for it
BatteryClass(entity) ==
    /\ "attributes" \in DOMAIN entity
    /\ "device_class" \in DOMAIN entity.attributes
    /\ entity.attributes.device_class = "battery"

\* C20: after a scan, for every threshold configuration, every entity of the
\* snapshot has at most one finding in the two lists together, every finding
\* comes from an entity of the snapshot, and a finding is a numeric one (it
\* ends in "%") exactly when its entity has device_class "battery": an
\* entity is never evaluated by both paths.
C20_AtMostOneFinding ==
    pc # "idle" =>
        /\ \A k \in DOMAIN states :
              CountOf(critical_devices, k) + CountOf(low_devices, k) <= 1
        /\ \A findings \in {critical_devices, low_devices} :
              \A i \in 1..Len(findings) :
                  /\ findings[i].entity_key \in DOMAIN states
                  /\ (findings[i].text[Len(findings[i].text)] = "%")
                        <=> BatteryClass(states[findings[i].entity_key])

\* C20 witness: with the critical threshold above the low threshold, a
\* reading below both is reported once, as critical.
C20_Witness ==
    /\ pc = "scanned"
    /\ critical_battery_threshold > low_battery_threshold
    /\ SensorA \in DOMAIN states
    /\ states[SensorA] = Battery(<<"5">>)
    /\ ~Excluded(SensorA)
    /\ CountOf(critical_devices, SensorA) = 1
    /\ CountOf(low_devices, SensorA) = 0

=============================================================================
